---- MODULE Spec2Model ----
(***************************************************************************)
(* Voice server (packages/voice-server-py): the /ws/control handler, the   *)
(* registry slot state.active_socket, the recognition feed running on      *)
(* worker threads, the transcript callback with its hand-off to the event  *)
(* loop object `loop`, the turn coroutine process_text_input, and the      *)
(* conversation history of the LLM engine (services/llm_engine.py).        *)
(*                                                                         *)
(* Two facts of the source shape the model.                                *)
(*  - main.py:132 calls AnyEvent.model_validate.  AnyEvent                 *)
(*    (schemas_generated.py:353-391) is typing.Annotated[Union[...], ...], *)
(*    not a pydantic model: the attribute lookup raises AttributeError for *)
(*    every argument, inside the try of main.py:129, so every text frame   *)
(*    ends in the except block of main.py:148-154.                         *)
(*  - main.py:51 creates `loop` with asyncio.new_event_loop(); nothing in  *)
(*    the source runs it (uvicorn.run, main.py:176, serves the handlers on *)
(*    a loop of its own, and asyncio.set_event_loop at main.py:96 does not *)
(*    start a loop).  run_coroutine_threadsafe(..., loop) at main.py:62,65 *)
(*    therefore only appends to the ready queue of a loop that never runs. *)
(***************************************************************************)
EXTENDS Integers, Sequences, FiniteSets, TLC

VARIABLES
    active_socket,  \* state.active_socket (main.py:37): a connection or None
    pc,             \* per connection: position of its control_endpoint coroutine
    peer,           \* per connection: "open" while the client side has not closed
    message,        \* per connection: the handler's local `message` (main.py:119)
    outbox,         \* per connection: envelopes delivered to the client, in order,
                    \* since its handler last took a frame off the socket
    stt,            \* state.stt: [recorder, on_text_callback]
    thr,            \* per connection: the worker thread of asyncio.to_thread(feed_pcm)
    scheduled,      \* ready queue of `loop` (main.py:51), filled by run_coroutine_threadsafe
    fired,          \* history: the non-blank texts on_stt_transcription was invoked
                    \* with, in the order of the invocations
    audio,          \* state.audio: [engine, current_voice_sample]
    turns,          \* process_text_input coroutines in flight
    llm             \* state.llm: the conversation chat_stream keeps (llm_engine.py)

vars ==
    <<active_socket, pc, peer, message, outbox, stt, thr, scheduled, fired, audio, turns, llm>>

----------------------------------------------------------------------------
(* Bounds *)

\* Envelopes a connection can be sent between two frames of its own.
MaxOut == 2
\* Sentences the recognition engine hands to the pipeline callback in a run.
MaxFired == 2
\* process_text_input coroutines that can be in flight together.
MaxTurns == 1
\* chat_stream calls made on the engine in a run.
MaxCalls == 12

Conns == {"c1", "c2"}
None == "None"
TurnIds == 1..MaxTurns

----------------------------------------------------------------------------
(* Texts: strings as sequences of characters, so that str.strip is computed *)

IsSpace(ch) == ch \in {" ", "\t", "\n"}

RECURSIVE LStrip(_)
LStrip(s) == IF s # <<>> /\ IsSpace(Head(s)) THEN LStrip(Tail(s)) ELSE s

RECURSIVE RStrip(_)
RStrip(s) ==
    IF s # <<>> /\ IsSpace(s[Len(s)]) THEN RStrip(SubSeq(s, 1, Len(s) - 1)) ELSE s

\* A plausible slip: `if not text:` instead of `if not text.strip():`.
StripNothing(s) == s

\* str.strip() (main.py:56)
Strip(s) == RStrip(LStrip(s))

\* Python truthiness of a str: non-empty (stt_engine.py:56, main.py:56)
Truthy(s) == s # <<>>

EmptyText == <<>>
BlankText == <<" ", " ">>
T1 == <<"a">>
T2 == <<" ", "b">>
Hello == <<"h", "i">>

\* The sentences spoken into the audio stream, in order
Utterance(i) == IF i % 2 = 1 THEN T1 ELSE T2

\* What recorder.text() can return (stt_engine.py:55) after n sentences:
\* nothing, white space, or the next sentence
Transcripts(n) == {EmptyText, BlankText, Utterance(n + 1)}

----------------------------------------------------------------------------
(* Inbound frames *)

Absent == "<absent>"
Paths == {"/voices/a.wav", "/nonexistent"}
\* os.path.exists (main.py:140): the files written by upload_voice
ExistingPaths == {"/voices/a.wav"}
PathExists(p) == p \in ExistingPaths

NoArgs == [present |-> FALSE, path |-> Absent]
Args(p) == [present |-> TRUE, path |-> p]
Payload(text, sessionId, command, args) ==
    [text |-> text, sessionId |-> sessionId, command |-> command, args |-> args]
NoPayload == Payload(EmptyText, Absent, Absent, NoArgs)

\* JSON documents a client sends (only the members the catalog looks at)
PingJson == [type |-> Absent, envelope |-> FALSE, payload |-> NoPayload]
UnknownTypeJson == [type |-> "foo.bar", envelope |-> TRUE, payload |-> NoPayload]
BadShapeJson ==
    [type |-> "chat.query", envelope |-> TRUE, payload |-> Payload(Hello, Absent, Absent, NoArgs)]
ChatQueryJson ==
    [type |-> "chat.query", envelope |-> TRUE, payload |-> Payload(Hello, "s1", Absent, NoArgs)]
SetProfileJson(p) ==
    [type |-> "ui.command", envelope |-> TRUE,
     payload |-> Payload(EmptyText, Absent, "set_profile", Args(p))]
\* UiCommandPayload.args is optional (schemas_generated.py:166-168)
SetProfileNoArgsJson ==
    [type |-> "ui.command", envelope |-> TRUE,
     payload |-> Payload(EmptyText, Absent, "set_profile", NoArgs)]
OtherCommandJson ==
    [type |-> "ui.command", envelope |-> TRUE,
     payload |-> Payload(EmptyText, Absent, "mute", NoArgs)]
OtherTypeJson ==
    [type |-> "ui.interruptibility", envelope |-> TRUE, payload |-> NoPayload]

JsonValues ==
    {PingJson, UnknownTypeJson, BadShapeJson, ChatQueryJson, OtherTypeJson,
     SetProfileNoArgsJson, OtherCommandJson}
        \cup {SetProfileJson(p) : p \in Paths}

\* Text frame bodies: well-formed JSON text carrying a value, or "{bad"
BadJsonBody == [wellFormed |-> FALSE, value |-> PingJson]
JsonBody(v) == [wellFormed |-> TRUE, value |-> v]
TextBodies == {BadJsonBody} \cup {JsonBody(v) : v \in JsonValues}

BinFrame == [frame |-> "bytes", body |-> BadJsonBody]
TextFrame(b) == [frame |-> "text", body |-> b]
DisconnectMsg == [frame |-> "disconnect", body |-> BadJsonBody]
NoMessage == [frame |-> "none", body |-> BadJsonBody]
ClientFrames == {BinFrame} \cup {TextFrame(b) : b \in TextBodies}

\* json.loads (main.py:130)
JsonLoads(body) ==
    IF body.wellFormed
    THEN [ok |-> TRUE, value |-> body.value, err |-> Absent]
    ELSE [ok |-> FALSE, value |-> body.value, err |-> "JSONDecodeError"]

\* The catalog's own verdict on a JSON value: the discriminated union of
\* schemas_generated.py:353-391 with the payload shapes bound to each type
\* (ChatQueryPayload needs text and sessionId, UiCommandPayload needs command).
CatalogTypes == {"chat.query", "ui.command", "ui.interruptibility"}
CatalogValid(v) ==
    /\ v.envelope
    /\ v.type \in CatalogTypes
    /\ v.type = "chat.query" => v.payload.sessionId # Absent
    /\ v.type = "ui.command" => v.payload.command # Absent

\* What a validating call (pydantic TypeAdapter(AnyEvent).validate_python) would return.
ModelValidateByCatalog(v) ==
    IF CatalogValid(v)
    THEN [ok |-> TRUE, event |-> v, err |-> Absent]
    ELSE [ok |-> FALSE, event |-> v, err |-> "ValidationError"]

\* AnyEvent.model_validate(raw_data) (main.py:132): AnyEvent is a typing alias,
\* the attribute does not exist, the call raises AttributeError whatever raw_data is.
ModelValidate(v) == [ok |-> FALSE, event |-> v, err |-> "AttributeError"]

----------------------------------------------------------------------------
(* Outbound envelopes (traceId and ts are fresh per envelope and left out) *)

\* VoiceServerState.make_envelope (main.py:40-48)
MakeEnvelope(type, payload, severity) ==
    [type |-> type, source |-> "voice-server-py", severity |-> severity, payload |-> payload]

\* A plausible slip: reporting handler failures under the pipeline code.
ErrorRaisedAsPipeline(msg) ==
    MakeEnvelope("error.raised",
                 [code |-> "E_PIPELINE", message |-> msg, recoverable |-> TRUE], "warn")

\* main.py:150-154
ErrorRaised(msg) ==
    MakeEnvelope("error.raised",
                 [code |-> "E_PROTOCOL", message |-> msg, recoverable |-> TRUE], "warn")

\* main.py:72-76 and main.py:87-91
PipelineStatus(step, st) ==
    MakeEnvelope("pipeline.status",
                 [pipelineId |-> "voice_chat", step |-> step, state |-> st], "info")

\* main.py:61
SttFinal(text) ==
    MakeEnvelope("stt.final", [text |-> text, confidence |-> "1.0", final |-> TRUE], "info")

\* main.py:142-146
UiFeedback(path) ==
    MakeEnvelope("ui.feedback",
                 [target |-> "voice_profile", helpful |-> TRUE, note |-> path], "info")

\* What websocket.send_json does once the client side has closed: the ASGI
\* server either raises into the caller or discards the frame.
SendOutcomes == {"raise", "drop"}

CanSend(c) == Len(outbox[c]) < MaxOut

----------------------------------------------------------------------------
(* Initial state: module import (main.py:50-51) and lifespan startup (main.py:94-97) *)

IdleThread == [pc |-> "idle", text |-> EmptyText]
FreeTurn == [st |-> "free", text |-> EmptyText, owner |-> None, origin |-> None]

\* A plausible slip: the restart of feed_pcm passing the pipeline callback on.
SttAfterStartKeepsPipeline(callback) ==
    {[recorder |-> r, on_text_callback |-> "pipeline"] : r \in BOOLEAN}

\* STTEngine.start(on_stt_transcription) (stt_engine.py:16-37): the callback is
\* stored before the recorder is built; building it can fail and is only logged.
SttAfterStart(callback) ==
    {[recorder |-> r, on_text_callback |-> callback] : r \in BOOLEAN}

\* LLMEngine.__init__ (llm_engine.py:17-20): an empty history.  `sent` is the
\* messages argument of the last ollama.chat call, `said` every message ever
\* appended, in order (history variables), `calls` the chat_stream calls so far.
NewLlm == [history |-> <<>>, sent |-> <<>>, said |-> <<>>, calls |-> 0, streaming |-> FALSE]

Init ==
    /\ active_socket = None
    /\ pc = [c \in Conns |-> "free"]
    /\ peer = [c \in Conns |-> "closed"]
    /\ message = [c \in Conns |-> NoMessage]
    /\ outbox = [c \in Conns |-> <<>>]
    /\ stt \in SttAfterStart("pipeline")
    /\ thr = [c \in Conns |-> IdleThread]
    /\ scheduled = <<>>
    /\ fired = <<>>
    /\ audio = [engine |-> "None", current_voice_sample |-> None]
    /\ turns = [k \in TurnIds |-> FreeTurn]
    /\ llm = NewLlm

----------------------------------------------------------------------------
(* Registry *)

\* A plausible slip: refusing a connection while another one is registered.
AttachIfVacant(c) == active_socket = None /\ active_socket' = c

\* state.active_socket = websocket (main.py:114)
Attach(c) == active_socket' = c

\* A plausible slip: a handler that ends without clearing the slot.
DetachSkipped(c) == active_socket' = active_socket

\* state.active_socket = None (main.py:158, main.py:161): whatever the slot holds
Detach(c) == active_socket' = None

----------------------------------------------------------------------------
(* Sending *)

\* websocket.send_json(env) on connection `to`: the possible results, each with
\* the outboxes it leaves.
SendResults(ob, to, env) ==
    IF peer[to] = "open"
    THEN {[raised |-> FALSE, outbox |-> [ob EXCEPT ![to] = Append(@, env)]]}
    ELSE {[raised |-> (o = "raise"), outbox |-> ob] : o \in SendOutcomes}

\* The handler of c takes a frame: what c was sent before belongs to earlier frames.
Taken(c) == [outbox EXCEPT ![c] = <<>>]

\* The handler leaves its loop through one of the outer except clauses
\* (main.py:156-161): the slot is cleared and the coroutine ends.
HandlerExit(c) ==
    /\ Detach(c)
    /\ pc' = [pc EXCEPT ![c] = "free"]
    /\ message' = [message EXCEPT ![c] = NoMessage]
    /\ outbox' = [outbox EXCEPT ![c] = <<>>]

\* The handler's loop goes round: `message` is dead until the next receive.
BackToReceive(c) ==
    /\ pc' = [pc EXCEPT ![c] = "recv"]
    /\ message' = [message EXCEPT ![c] = NoMessage]
    /\ active_socket' = active_socket

\* A plausible slip: no inner try, so a bad frame ends the handler.
ExceptBlockPropagates(c, err, ob) == HandlerExit(c)

\* A plausible slip: `except Exception: pass`, the failure is not reported.
ExceptBlockSilent(c, err, ob) ==
    /\ outbox' = ob
    /\ BackToReceive(c)

\* A plausible slip: reporting to the registered client, as the statuses are.
ExceptBlockToRegistry(c, err, ob) ==
    IF active_socket = None
    THEN /\ outbox' = ob
         /\ BackToReceive(c)
    ELSE \E r \in SendResults(ob, active_socket, ErrorRaised(err)) :
            IF r.raised
            THEN HandlerExit(c)
            ELSE /\ outbox' = r.outbox
                 /\ BackToReceive(c)

\* except Exception as e (main.py:148-154): one error.raised on this websocket,
\* then back to websocket.receive(); a failing send leaves through main.py:156-161.
ExceptBlock(c, err, ob) ==
    \E r \in SendResults(ob, c, ErrorRaised(err)) :
        IF r.raised
        THEN HandlerExit(c)
        ELSE /\ outbox' = r.outbox
             /\ BackToReceive(c)

----------------------------------------------------------------------------
(* Synthesis engine (services/audio_engine.py) *)

\* AudioEngine.initialize_tts (audio_engine.py:13-36): the states it can leave
InitializeTts(a, path) ==
    IF path # None /\ PathExists(path)
    THEN {[engine |-> "Coqui", current_voice_sample |-> path],
          [engine |-> "System", current_voice_sample |-> a.current_voice_sample]}
    ELSE {[engine |-> "System", current_voice_sample |-> path],
          [engine |-> "System", current_voice_sample |-> a.current_voice_sample]}

\* AudioEngine.set_voice (audio_engine.py:49-59)
SetVoice(a, path) ==
    IF a.current_voice_sample = path THEN {a}
    ELSE IF a.engine = "Coqui" /\ PathExists(path) THEN InitializeTts(a, path)
    ELSE {a}

\* A plausible slip: speak_stream without the lazy initialisation.
EnsureEngineAbsent(a) == {a}

\* The engine part of AudioEngine.speak_stream (audio_engine.py:40-41)
EnsureEngine(a) == IF a.engine = "None" THEN InitializeTts(a, None) ELSE {a}

----------------------------------------------------------------------------
(* process_text_input (main.py:67-91) *)

TurnFree(k) == turns[k].st = "free"

\* main.py:70-83 up to the await of asyncio.to_thread: status to whatever the
\* slot holds now, then generation and synthesis start on a worker.
\* `raised` is what the caller does when the send raises.
BeginTurn(k, text, owner, origin, ob, raised) ==
    LET started == [st |-> "speaking", text |-> text, owner |-> owner, origin |-> origin]
        awaiting == IF owner = None
                    THEN UNCHANGED <<pc, active_socket, message>>
                    ELSE /\ pc' = [pc EXCEPT ![owner] = "turn"]
                         /\ message' = [message EXCEPT ![owner] = NoMessage]
                         /\ active_socket' = active_socket
    IN
    /\ TurnFree(k)
    /\ active_socket # None => Len(ob[active_socket]) < MaxOut
    /\ IF active_socket = None
       THEN /\ turns' = [turns EXCEPT ![k] = started]
            /\ outbox' = ob
            /\ awaiting
       ELSE \E r \in SendResults(ob, active_socket, PipelineStatus("llm", "start")) :
                IF r.raised
                THEN /\ turns' = turns
                     /\ raised
                ELSE /\ turns' = [turns EXCEPT ![k] = started]
                     /\ outbox' = r.outbox
                     /\ awaiting

\* An exception that leaves a coroutine nobody awaits: it stays in the future
\* returned by run_coroutine_threadsafe (main.py:65), which nobody reads.
TaskFails == UNCHANGED <<pc, active_socket, message, outbox>>

----------------------------------------------------------------------------
(* control_endpoint (main.py:111-161) *)

\* The serving loop runs one coroutine at a time, from one await to the next:
\* while a handler is between receive() returning and its next await, no other
\* coroutine of the loop runs (worker threads and clients do).
LoopIdle == \A c \in Conns : pc[c] # "handle"

\* await websocket.accept(); state.active_socket = websocket (main.py:113-114)
Accept(c) ==
    /\ LoopIdle
    /\ pc[c] = "free"
    /\ Attach(c)
    /\ pc' = [pc EXCEPT ![c] = "recv"]
    /\ peer' = [peer EXCEPT ![c] = "open"]
    /\ outbox' = [outbox EXCEPT ![c] = <<>>]
    /\ message' = [message EXCEPT ![c] = NoMessage]
    /\ UNCHANGED <<stt, thr, scheduled, fired, audio, turns>>
    /\ llm' = llm

\* The client closes its side of the socket.
ClientClose(c) ==
    /\ pc[c] # "free"
    /\ peer[c] = "open"
    /\ peer' = [peer EXCEPT ![c] = "closed"]
    /\ UNCHANGED <<active_socket, pc, message, outbox, stt, thr, scheduled, fired, audio,
                   turns>>
    /\ llm' = llm

\* message = await websocket.receive() (main.py:119), the clients sending
\* `frames`: it returns a frame the client sent (also one sent before it
\* closed), or the disconnect message once the client has closed.
ReceiveFrom(c, frames) ==
    /\ LoopIdle
    /\ pc[c] = "recv"
    /\ \E m \in frames \cup (IF peer[c] = "closed" THEN {DisconnectMsg} ELSE {}) :
          message' = [message EXCEPT ![c] = m]
    /\ pc' = [pc EXCEPT ![c] = "handle"]
    /\ UNCHANGED <<active_socket, peer, outbox, stt, thr, scheduled, fired, audio, turns>>
    /\ llm' = llm

Receive(c) == ReceiveFrom(c, ClientFrames)

\* Binary frame: await asyncio.to_thread(state.stt.feed_pcm, pcm_data) (main.py:122-125)
HandleBinary(c) ==
    /\ pc[c] = "handle"
    /\ message[c].frame = "bytes"
    /\ pc' = [pc EXCEPT ![c] = "feeding"]
    /\ message' = [message EXCEPT ![c] = NoMessage]
    /\ outbox' = Taken(c)
    /\ thr' = [thr EXCEPT ![c] = [pc |-> "feed", text |-> EmptyText]]
    /\ UNCHANGED <<active_socket, peer, stt, scheduled, fired, audio, turns>>
    /\ llm' = llm

\* The dispatch on a validated event (main.py:134-146)
Dispatch(c, event) ==
    IF event.type = "chat.query"
    THEN /\ \E k \in TurnIds :
                BeginTurn(k, event.payload.text, c, c, Taken(c),
                          ExceptBlock(c, "SendError", Taken(c)))
         /\ audio' = audio
    ELSE IF event.type = "ui.command" /\ event.payload.command = "set_profile"
    THEN IF ~event.payload.args.present
         THEN \* args is None: None.get raises AttributeError (main.py:139)
              /\ ExceptBlock(c, "AttributeError", Taken(c))
              /\ UNCHANGED <<audio, turns>>
         ELSE LET path == event.payload.args.path IN
              IF PathExists(path)
              THEN /\ audio' \in SetVoice(audio, path)
                   /\ turns' = turns
                   /\ \E r \in SendResults(Taken(c), c, UiFeedback(path)) :
                         IF r.raised
                         THEN ExceptBlock(c, "SendError", Taken(c))
                         ELSE /\ outbox' = r.outbox
                              /\ BackToReceive(c)
              ELSE /\ BackToReceive(c)
                   /\ outbox' = Taken(c)
                   /\ UNCHANGED <<audio, turns>>
    ELSE /\ BackToReceive(c)
         /\ outbox' = Taken(c)
         /\ UNCHANGED <<audio, turns>>

\* Text frame (main.py:128-154), `validate` being what the call of main.py:132
\* does with each JSON value
HandleTextVia(c, validate) ==
    /\ pc[c] = "handle"
    /\ message[c].frame = "text"
    /\ LET parsed == JsonLoads(message[c].body) IN
       IF ~parsed.ok
       THEN /\ ExceptBlock(c, parsed.err, Taken(c))
            /\ UNCHANGED <<audio, turns>>
       ELSE LET validated == validate[parsed.value] IN
            IF ~validated.ok
            THEN /\ ExceptBlock(c, validated.err, Taken(c))
                 /\ UNCHANGED <<audio, turns>>
            ELSE Dispatch(c, validated.event)
    /\ UNCHANGED <<peer, stt, thr, scheduled, fired>>
    /\ llm' = llm

\* Text frame in the server as wired
HandleText(c) == HandleTextVia(c, [v \in JsonValues |-> ModelValidate(v)])

\* Text frame when the call of main.py:132 validates against the catalog and
\* returns the event: the statements of main.py:134-146 are reached.
HandleValidated(c) ==
    HandleTextVia(c, [v \in JsonValues |-> ModelValidateByCatalog(v)])

\* The disconnect message matches neither branch; the next websocket.receive()
\* raises RuntimeError, caught at main.py:159-161 (WebSocketDisconnect: 156-158).
HandleDisconnect(c) ==
    /\ pc[c] = "handle"
    /\ message[c].frame = "disconnect"
    /\ HandlerExit(c)
    /\ UNCHANGED <<peer, stt, thr, scheduled, fired, audio, turns>>
    /\ llm' = llm

----------------------------------------------------------------------------
(* Recognition feed on a worker thread (services/stt_engine.py) and the     *)
(* transcript callback it invokes (main.py:54-65)                           *)

ThreadAt(c, where) == thr[c].pc = where
ThreadGoes(c, where, text) == thr' = [thr EXCEPT ![c] = [pc |-> where, text |-> text]]

\* STTEngine.feed_pcm (stt_engine.py:39-60) up to the callback, and the
\* callback's first lines (main.py:55-57).  Without a recorder, start() is
\* called again with a logging lambda (stt_engine.py:41-43).
FeedPcm(c) ==
    /\ ThreadAt(c, "feed")
    /\ \E s \in (IF stt.recorder THEN {stt} ELSE SttAfterStart("logger")) :
        /\ stt' = s
        /\ IF ~s.recorder
           THEN \* self.recorder.feed_audio on None: caught and logged (stt_engine.py:59-60)
                /\ ThreadGoes(c, "done", EmptyText)
                /\ fired' = fired
           ELSE \E text \in Transcripts(Len(fired)) :
                IF ~Truthy(text)
                THEN /\ ThreadGoes(c, "done", EmptyText)
                     /\ fired' = fired
                ELSE IF s.on_text_callback # "pipeline"
                THEN \* the lambda of stt_engine.py:43 logs the text
                     /\ ThreadGoes(c, "done", EmptyText)
                     /\ fired' = fired
                ELSE \* on_stt_transcription(text)
                     IF ~Truthy(Strip(text))
                     THEN \* main.py:56-57: return
                          /\ ThreadGoes(c, "done", text)
                          /\ fired' = fired
                     ELSE /\ Len(fired) < MaxFired
                          /\ fired' = Append(fired, text)
                          /\ ThreadGoes(c, "cb59", text)
    /\ UNCHANGED <<active_socket, pc, peer, message, outbox, scheduled, audio, turns>>
    /\ llm' = llm

\* if state.active_socket: (main.py:59)
OnSttCheckSocket(c) ==
    /\ ThreadAt(c, "cb59")
    /\ IF active_socket # None
       THEN ThreadGoes(c, "cb62", thr[c].text)
       ELSE ThreadGoes(c, "done", EmptyText)
    /\ UNCHANGED <<active_socket, pc, peer, message, outbox, stt, scheduled, fired, audio,
                   turns>>
    /\ llm' = llm

\* run_coroutine_threadsafe(state.active_socket.send_json(event), loop) (main.py:61-62):
\* the slot is read again; on None the AttributeError ends in feed_pcm's except.
OnSttScheduleSend(c) ==
    /\ ThreadAt(c, "cb62")
    /\ IF active_socket # None
       THEN /\ scheduled' = Append(scheduled,
                                   [coro |-> "send_json", sock |-> active_socket,
                                    text |-> thr[c].text])
            /\ ThreadGoes(c, "cb65", thr[c].text)
       ELSE /\ scheduled' = scheduled
            /\ ThreadGoes(c, "done", EmptyText)
    /\ UNCHANGED <<active_socket, pc, peer, message, outbox, stt, fired, audio, turns>>
    /\ llm' = llm

\* run_coroutine_threadsafe(process_text_input(text), loop) (main.py:65)
OnSttScheduleProcess(c) ==
    /\ ThreadAt(c, "cb65")
    /\ scheduled' = Append(scheduled,
                           [coro |-> "process_text_input", sock |-> None,
                            text |-> thr[c].text])
    /\ ThreadGoes(c, "done", EmptyText)
    /\ UNCHANGED <<active_socket, pc, peer, message, outbox, stt, fired, audio, turns>>
    /\ llm' = llm

\* The await of main.py:125 completes: the handler goes back to receive.
FeedReturn(c) ==
    /\ LoopIdle
    /\ pc[c] = "feeding"
    /\ ThreadAt(c, "done")
    /\ pc' = [pc EXCEPT ![c] = "recv"]
    /\ thr' = [thr EXCEPT ![c] = IdleThread]
    /\ UNCHANGED <<active_socket, peer, message, outbox, stt, scheduled, fired, audio, turns>>
    /\ llm' = llm

----------------------------------------------------------------------------
(* The rest of process_text_input, for a coroutine that has been started *)

\* Texts a turn is started with
TurnTexts == {T1}

\* process_text_input(text) run as a coroutine of its own on the serving loop
StartTask(k, text) ==
    /\ LoopIdle
    /\ BeginTurn(k, text, None, active_socket, outbox, TaskFails)
    /\ UNCHANGED <<peer, stt, thr, scheduled, fired, audio>>
    /\ llm' = llm

\* state.audio.speak_stream(stream) on a worker (audio_engine.py:38-47): the
\* engine is initialized on first use; generation or playback may raise.
\* The stream it consumes is chat_stream's generator; what that does to the
\* conversation history is followed in LlmSpec, nothing in main.py or in the
\* other engines reading it.
SpeakStream(k) ==
    /\ turns[k].st = "speaking"
    /\ audio' \in EnsureEngine(audio)
    /\ \E ok \in BOOLEAN :
          turns' = [turns EXCEPT ![k].st = IF ok THEN "spoken" ELSE "raised"]
    /\ UNCHANGED <<active_socket, pc, peer, message, outbox, stt, thr, scheduled, fired>>
    /\ llm' = llm

\* A plausible slip: answering the connection that triggered the turn.
StatusTargetOrigin(origin) == origin

\* The connection process_text_input sends a status to (main.py:71-72, 86-87)
StatusTarget(origin) == active_socket

\* A plausible slip: speak_stream started but not awaited.
SynthesisStarted(t) == t.st # "free"

\* await asyncio.to_thread(state.audio.speak_stream, stream) (main.py:83):
\* the coroutine goes on when the worker has returned or raised.
SynthesisOver(t) == t.st \in {"spoken", "raised"}

\* After the await of main.py:83: the exception propagates, or the final
\* status goes to whatever the slot holds now (main.py:85-91).
FinishTurn(k) ==
    LET t == turns[k]
        to == StatusTarget(t.origin)
        resume == IF t.owner = None
                  THEN UNCHANGED <<pc, active_socket, message>>
                  ELSE BackToReceive(t.owner)
        raise == IF t.owner = None THEN TaskFails
                 ELSE ExceptBlock(t.owner, "PipelineError", outbox)
    IN
    /\ LoopIdle
    /\ SynthesisOver(t)
    /\ turns' = [turns EXCEPT ![k] = FreeTurn]
    /\ IF t.st = "raised"
       THEN raise
       ELSE IF to = None
       THEN /\ outbox' = outbox
            /\ resume
       ELSE /\ CanSend(to)
            /\ \E r \in SendResults(outbox, to, PipelineStatus("tts", "done")) :
                  IF r.raised
                  THEN raise
                  ELSE /\ outbox' = r.outbox
                       /\ resume
    /\ UNCHANGED <<peer, stt, thr, scheduled, fired, audio>>
    /\ llm' = llm

----------------------------------------------------------------------------
(* LLMEngine.chat_stream (services/llm_engine.py:29-52) *)

\* llm_engine.py:37: `if len(self.history) > 20`
HistoryLimit == 20
\* llm_engine.py:38: `self.history[-19:]`
KeptTail == 19

\* Messages, told apart by role and by the call they belong to
SystemMsg == [role |-> "system", call |-> 0]
UserMsg(n) == [role |-> "user", call |-> n]
AssistantMsg(n) == [role |-> "assistant", call |-> n]

\* h[-n:] of Python, n > 0
LastOf(h, n) == IF Len(h) <= n THEN h ELSE SubSeq(h, Len(h) - n + 1, Len(h))

\* A plausible slip: keeping the newest messages only, `self.history[-20:]`.
TrimNewestOnly(h) == IF Len(h) > HistoryLimit THEN LastOf(h, HistoryLimit) ELSE h

\* llm_engine.py:37-38
Trim(h) == IF Len(h) > HistoryLimit THEN <<h[1]>> \o LastOf(h, KeptTail) ELSE h

\* llm_engine.py:31-32
WithSystem(h) == IF h = <<>> THEN <<SystemMsg>> ELSE h

\* The generator runs from its start to its first yield (llm_engine.py:31-50):
\* system prompt into an empty history, the user's message appended, the
\* history trimmed, and the history given to ollama.chat.
ChatStreamBegin ==
    /\ ~llm.streaming
    /\ llm.calls < MaxCalls
    /\ LET n == llm.calls + 1
           h == Trim(Append(WithSystem(llm.history), UserMsg(n)))
       IN  llm' = [history |-> h, sent |-> h,
                   said |-> Append(WithSystem(llm.said), UserMsg(n)),
                   calls |-> n, streaming |-> TRUE]
    /\ UNCHANGED <<active_socket, pc, peer, message, outbox, stt, thr, scheduled, fired,
                   audio, turns>>

\* The stream is exhausted: the reply is appended (llm_engine.py:52).
ChatStreamEnd ==
    /\ llm.streaming
    /\ llm' = [llm EXCEPT !.history = Append(@, AssistantMsg(llm.calls)),
                          !.said = Append(@, AssistantMsg(llm.calls)),
                          !.streaming = FALSE]
    /\ UNCHANGED <<active_socket, pc, peer, message, outbox, stt, thr, scheduled, fired,
                   audio, turns>>

\* ollama raises while streaming, or the consumer stops iterating: the
\* generator ends before llm_engine.py:52 and no reply is recorded.
ChatStreamBroken ==
    /\ llm.streaming
    /\ llm' = [llm EXCEPT !.streaming = FALSE]
    /\ UNCHANGED <<active_socket, pc, peer, message, outbox, stt, thr, scheduled, fired,
                   audio, turns>>

----------------------------------------------------------------------------
(* Specifications *)

\* The server as wired: handlers on the serving loop, feeds on worker threads.
Next ==
    \E c \in Conns :
        \/ Accept(c)
        \/ ClientClose(c)
        \/ Receive(c)
        \/ HandleBinary(c)
        \/ HandleText(c)
        \/ HandleDisconnect(c)
        \/ FeedPcm(c)
        \/ OnSttCheckSocket(c)
        \/ OnSttScheduleSend(c)
        \/ OnSttScheduleProcess(c)
        \/ FeedReturn(c)

Spec == Init /\ [][Next]_vars

\* The server as wired, with the scheduling asyncio and the thread pool give:
\* a handler that has a frame handles it, a worker thread that can step does,
\* a finished feed is returned to its handler, a receive on a connection the
\* client has closed returns.  Clients are not obliged to act.
FairSpec ==
    /\ Spec
    /\ \A c \in Conns :
          /\ WF_vars(peer[c] = "closed" /\ Receive(c))
          /\ WF_vars(HandleBinary(c))
          /\ WF_vars(HandleText(c))
          /\ WF_vars(HandleDisconnect(c))
          /\ WF_vars(FeedPcm(c))
          /\ WF_vars(OnSttCheckSocket(c))
          /\ WF_vars(OnSttScheduleSend(c))
          /\ WF_vars(OnSttScheduleProcess(c))
          /\ WF_vars(FeedReturn(c))

\* FairSpec with clients that keep coming back and keep asking: a connection
\* that can be opened is opened again and again, a handler waiting for a frame
\* gets a set_profile naming an uploaded file again and again, and a
\* chat.query again and again.
SetProfileFrames == {TextFrame(JsonBody(SetProfileJson(p))) : p \in ExistingPaths}
ChatQueryFrames == {TextFrame(JsonBody(ChatQueryJson))}

ClientFairSpec ==
    /\ FairSpec
    /\ \A c \in Conns :
          /\ SF_vars(Accept(c))
          /\ SF_vars(ReceiveFrom(c, SetProfileFrames))
          /\ SF_vars(ReceiveFrom(c, ChatQueryFrames))

\* The handlers of clients that send text only, with process_text_input
\* coroutines running on the serving loop.
TurnFrames == {TextFrame(BadJsonBody), TextFrame(JsonBody(ChatQueryJson))}

ReceiveText(c) == ReceiveFrom(c, TurnFrames)

TurnNext ==
    \/ \E c \in Conns :
          \/ Accept(c)
          \/ ClientClose(c)
          \/ ReceiveText(c)
          \/ HandleText(c)
          \/ HandleDisconnect(c)
    \/ \E k \in TurnIds : \E text \in TurnTexts : StartTask(k, text)
    \/ \E k \in TurnIds : SpeakStream(k)
    \/ \E k \in TurnIds : FinishTurn(k)

TurnSpec == Init /\ [][TurnNext]_vars

\* The handlers of clients that send text only, past a validation that
\* accepts what the catalog accepts: commands are dispatched (main.py:134-146)
\* and chat.query turns run inside their handler.
DispatchFrames ==
    {TextFrame(BadJsonBody)} \cup
    {TextFrame(JsonBody(v)) :
        v \in {ChatQueryJson, SetProfileNoArgsJson, OtherTypeJson}
                 \cup {SetProfileJson(p) : p \in Paths}}

ReceiveCommand(c) == ReceiveFrom(c, DispatchFrames)

DispatchNext ==
    \/ \E c \in Conns :
          \/ Accept(c)
          \/ ClientClose(c)
          \/ ReceiveCommand(c)
          \/ HandleValidated(c)
          \/ HandleDisconnect(c)
    \/ \E k \in TurnIds : SpeakStream(k)
    \/ \E k \in TurnIds : FinishTurn(k)

DispatchSpec == Init /\ [][DispatchNext]_vars

\* The engine alone, called again and again, one call at a time.
LlmNext ==
    \/ ChatStreamBegin
    \/ ChatStreamEnd
    \/ ChatStreamBroken

LlmSpec == Init /\ [][LlmNext]_vars

----------------------------------------------------------------------------
(* Vocabulary of the properties *)

\* The handler of c handles the frame it holds in this step.
Handles(c) == pc[c] = "handle" /\ pc'[c] # "handle"

\* Text that is not JSON, or JSON the catalog does not accept
Malformed(m) ==
    /\ m.frame = "text"
    /\ ~m.body.wellFormed \/ ~CatalogValid(m.body.value)

ValidChatQuery(m) ==
    /\ m.frame = "text"
    /\ m.body.wellFormed
    /\ CatalogValid(m.body.value)
    /\ m.body.value.type = "chat.query"

SetProfileMissingPath(m) ==
    /\ m.frame = "text"
    /\ m.body.wellFormed
    /\ CatalogValid(m.body.value)
    /\ m.body.value.type = "ui.command"
    /\ m.body.value.payload.command = "set_profile"
    /\ m.body.value.payload.args.present
    /\ m.body.value.payload.args.path \notin ExistingPaths

IsProtocolError(e) ==
    /\ e.type = "error.raised"
    /\ e.payload.code = "E_PROTOCOL"
    /\ e.payload.recoverable = TRUE

IsStatus(e, step, st) ==
    /\ e.type = "pipeline.status"
    /\ e.payload.step = step
    /\ e.payload.state = st

Sent(ob, c, type) == \E i \in 1..Len(ob[c]) : ob[c][i].type = type

OthersUntouched(c) == \A d \in Conns \ {c} : outbox'[d] = outbox[d]

IsBlank(s) == \A i \in 1..Len(s) : s[i] \in {" ", "\t", "\n"}

RECURSIVE IsSubsequence(_, _)
IsSubsequence(s, t) ==
    IF s = <<>> THEN TRUE
    ELSE IF t = <<>> THEN FALSE
    ELSE IF Head(s) = Head(t) THEN IsSubsequence(Tail(s), Tail(t))
    ELSE IsSubsequence(s, Tail(t))

\* The texts of the process_text_input coroutines on the queue of `loop`, in queue order
RECURSIVE ProcessTexts(_)
ProcessTexts(q) ==
    IF q = <<>> THEN <<>>
    ELSE IF Head(q).coro = "process_text_input"
         THEN <<Head(q).text>> \o ProcessTexts(Tail(q))
         ELSE ProcessTexts(Tail(q))

----------------------------------------------------------------------------
(* Properties *)

C2_ChatQueryAfterRejectionStartsTurn ==
    [][\A c \in Conns :
          (/\ Handles(c)
           /\ ValidChatQuery(message[c])
           /\ outbox[c] = <<ErrorRaised("JSONDecodeError")>>
           /\ peer[c] = "open"
           /\ active_socket = c)
              => /\ pc'[c] # "free"
                 /\ active_socket' = c
                 /\ Len(outbox'[c]) >= 1
                 /\ IsStatus(outbox'[c][1], "llm", "start")
                 /\ \E k \in TurnIds : turns'[k].st = "speaking"]_vars

\* C3 (the part a single step decides): a valid chat.query from the registered,
\* connected client is answered with pipeline.status{llm,start}, the turn is
\* running afterwards, and no error.raised is emitted for it.
C3_ChatQueryStartsTurnWithoutError ==
    [][\A c \in Conns :
          (Handles(c) /\ ValidChatQuery(message[c]) /\ peer[c] = "open" /\ active_socket = c)
              => /\ ~Sent(outbox', c, "error.raised")
                 /\ Sent(outbox', c, "pipeline.status")
                 /\ pc'[c] = "turn"]_vars

\* C4: the turns for transcripts handed over by the callback are run in the
\* order in which the callback was fired: the process_text_input coroutines on
\* the loop's queue, which it would run first in first out, follow that order.
C4_TurnsQueuedInFiringOrder == IsSubsequence(ProcessTexts(scheduled), fired)

\* C5: work handed to the bridge does not stay unexecuted for ever: whatever
\* is on the queue of `loop` is eventually taken off it and run.
C5_ScheduledWorkIsRun == (scheduled # <<>>) ~> (scheduled = <<>>)

\* C6: a transcript of white space only goes no further than the callback's
\* first check: it is never the text of work handed to the loop, of a callback
\* past the check, or of a turn, so it causes no envelope and no turn.
C6_BlankTranscriptDiscarded ==
    /\ \A i \in 1..Len(scheduled) : ~IsBlank(scheduled[i].text)
    /\ \A c \in Conns : thr[c].pc \in {"cb59", "cb62", "cb65"} => ~IsBlank(thr[c].text)
    /\ \A i \in 1..Len(fired) : ~IsBlank(fired[i])

\* The callback has returned on a transcript of white space with a connection
\* registered, and nothing was handed to the loop.
C6_Witness ==
    \E c \in Conns :
        /\ thr[c].pc = "done"
        /\ thr[c].text = BlankText
        /\ stt.on_text_callback = "pipeline"
        /\ active_socket = c
        /\ scheduled = <<>>

\* C7: a handler that ends while the registry holds another connection leaves
\* the registry as it is.
C7_StaleDetachKeepsNewerSession ==
    [][\A c \in Conns :
          (pc[c] # "free" /\ pc'[c] = "free" /\ active_socket # c)
              => active_socket' = active_socket]_vars

\* C8: a pipeline.status goes to the connection the registry holds when it is
\* sent, whichever connection was registered when the turn began; with an
\* empty registry nothing is sent to anyone.
StatusStep(k) ==
    \/ turns[k].st = "free" /\ turns'[k].st = "speaking"
    \/ turns[k].st = "spoken" /\ turns'[k].st = "free"

StatusOf(k) ==
    IF turns[k].st = "free" THEN PipelineStatus("llm", "start")
    ELSE PipelineStatus("tts", "done")

C10_MissingProfileNoFeedback ==
    [][\A c \in Conns :
          (Handles(c) /\ SetProfileMissingPath(message[c]))
              => /\ \A d \in Conns : ~Sent(outbox', d, "ui.feedback")
                 /\ audio' = audio
                 /\ peer[c] = "open" => pc'[c] = "recv"]_vars

\* The handler of a connected, registered client holds such a command.
C10_Witness ==
    \E c \in Conns :
        /\ pc[c] = "handle"
        /\ SetProfileMissingPath(message[c])
        /\ peer[c] = "open"
        /\ active_socket = c

\* C11: when the handling of a set_profile command for path p sends the
\* ui.feedback confirmation, the synthesis engine's voice profile is p,
\* whichever engine state the command met.
SetProfileExistingPath(m) ==
    /\ m.frame = "text"
    /\ m.body.wellFormed
    /\ CatalogValid(m.body.value)
    /\ m.body.value.type = "ui.command"
    /\ m.body.value.payload.command = "set_profile"
    /\ m.body.value.payload.args.present
    /\ m.body.value.payload.args.path \in ExistingPaths

C12_ProfileEventuallyActive ==
    <>(audio.engine = "Coqui" /\ audio.current_voice_sample \in ExistingPaths)

\* C13: when the handling of a validated command raises (set_profile without
\* args, or generation or synthesis failing in a chat.query turn) and the
\* client is connected, exactly one error.raised is added to what that client
\* was sent, nothing else is sent to anyone (no pipeline.status{tts,done}),
\* the registry is untouched and the handler goes back to receive.
DispatchRaises(c) ==
    /\ Handles(c)
    /\ message[c] = TextFrame(JsonBody(SetProfileNoArgsJson))

TurnRaises(c) ==
    \E k \in TurnIds :
        /\ turns[k].owner = c
        /\ turns[k].st = "raised"
        /\ turns'[k].st = "free"

HasCode(e, code) == e.type = "error.raised" /\ e.payload.code = code

C14_ErrorCodesFollowTaxonomy ==
    [][\A c \in Conns :
          /\ (Handles(c) /\ \E i \in 1..Len(outbox'[c]) : HasCode(outbox'[c][i], "E_PROTOCOL"))
                => Malformed(message[c])
          /\ (TurnRaises(c) /\ peer[c] = "open")
                => /\ Len(outbox'[c]) >= 1
                   /\ HasCode(outbox'[c][Len(outbox'[c])], "E_PIPELINE")]_vars

\* C15: a catalog-valid envelope that is neither chat.query nor ui.command
\* set_profile is accepted without effect: its client is sent nothing, nobody
\* else is, no turn starts, and the registry and the synthesis engine stay
\* as they are.
ValidUnhandled(m) ==
    /\ m.frame = "text"
    /\ m.body.wellFormed
    /\ CatalogValid(m.body.value)
    /\ m.body.value.type # "chat.query"
    /\ ~(m.body.value.type = "ui.command" /\ m.body.value.payload.command = "set_profile")

C15_UnhandledTypeIsNoOp ==
    [][\A c \in Conns :
          (Handles(c) /\ ValidUnhandled(message[c]))
              => /\ outbox'[c] = <<>>
                 /\ OthersUntouched(c)
                 /\ turns' = turns
                 /\ scheduled' = scheduled
                 /\ active_socket' = active_socket
                 /\ audio' = audio
                 /\ pc'[c] = "recv"]_vars

\* C16: the transcript callback, which runs on a worker thread, does not depend
\* on the slot: a connection it has seen registered (main.py:59) is not
\* cleared by the loop before the callback uses it (main.py:62).
C16_SlotSeenByCallbackStillHeld ==
    \A c \in Conns : thr[c].pc = "cb62" => active_socket # None

\* C17: while the recognition feed of a connection's binary frame is in
\* progress on a worker, the loop being free, the handler of that connection
\* can take the connection's next inbound message.
C17_HandlerReceivesDuringFeed ==
    \A c \in Conns :
        (/\ pc[c] = "feeding"
         /\ thr[c].pc \in {"feed", "cb59", "cb62", "cb65"}
         /\ peer[c] = "open"
         /\ LoopIdle)
            => ENABLED Receive(c)

\* C18: a transcript that is not blank always starts a turn, attached
\* connection or not: when the callback returns, process_text_input for
\* that transcript has been handed to the loop.
C18_TranscriptAlwaysStartsTurn ==
    [][\A c \in Conns :
          (thr[c].pc \in {"cb59", "cb62", "cb65"} /\ thr'[c].pc = "done")
              => /\ Len(scheduled') >= 1
                 /\ scheduled'[Len(scheduled')].coro = "process_text_input"
                 /\ scheduled'[Len(scheduled')].text = thr[c].text]_vars

\* C19: a client that disconnects while its turn is in generation or
\* synthesis does not abort the turn: the turn goes on to the end of
\* synthesis; when it ends, the handler either goes back to receive or ends
\* with the slot cleared, the other handlers are untouched and nothing is
\* recorded as delivered to the dead connection; and a handler that has ended
\* is never left in the registry.
OrphanedTurn(c, k) ==
    /\ turns[k].owner = c
    /\ turns[k].st # "free"
    /\ peer[c] = "closed"

SpeakStreamRan(k) == turns[k].st = "speaking" /\ turns'[k].st # "speaking"

----------------------------------------------------------------------------
(* The wire form of envelopes *)

\* websocket.send_json (main.py:142, 150): json.dumps of the envelope dict,
\* always well-formed JSON text carrying that value
Encode(e) == [wellFormed |-> TRUE, value |-> e]

\* The decoding of the dispatcher (main.py:130-132): json.loads, then
\* AnyEvent.model_validate on the parsed value
Decode(body) ==
    LET parsed == JsonLoads(body)
    IN  IF parsed.ok
        THEN ModelValidate(parsed.value)
        ELSE [ok |-> FALSE, event |-> parsed.value, err |-> parsed.err]

RoundTrips(e) ==
    LET r == Decode(Encode(e)) IN r.ok /\ r.event = e

\* C21: every envelope of the catalog decodes from its encoding to itself:
\* the envelopes the server has built (those sent, and the stt.final ones
\* handed to the loop) and every catalog-valid document a client sends.
C21_EnvelopesRoundTrip ==
    /\ \A c \in Conns :
          /\ \A i \in 1..Len(outbox[c]) : RoundTrips(outbox[c][i])
          /\ (/\ message[c].frame = "text"
              /\ message[c].body.wellFormed
              /\ CatalogValid(message[c].body.value))
                => /\ message[c].body = Encode(message[c].body.value)
                   /\ RoundTrips(message[c].body.value)
    /\ \A i \in 1..Len(scheduled) :
          scheduled[i].coro = "send_json" => RoundTrips(SttFinal(scheduled[i].text))

----------------------------------------------------------------------------
\* The envelopes a step adds to what connection c has been sent
Added(c) ==
    IF outbox'[c] = outbox[c] THEN <<>>
    ELSE IF /\ Len(outbox'[c]) > Len(outbox[c])
            /\ SubSeq(outbox'[c], 1, Len(outbox[c])) = outbox[c]
    THEN SubSeq(outbox'[c], Len(outbox[c]) + 1, Len(outbox'[c]))
    ELSE outbox'[c]

StatusesAdded ==
    {<<c, i>> \in Conns \X (1..MaxOut + 1) :
        i <= Len(Added(c)) /\ Added(c)[i].type = "pipeline.status"}

----------------------------------------------------------------------------
----------------------------------------------------------------------------
\* The texts of the stt.final sends on the queue of `loop`, in queue order
RECURSIVE SendTexts(_)
SendTexts(q) ==
    IF q = <<>> THEN <<>>
    ELSE IF Head(q).coro = "send_json"
         THEN <<Head(q).text>> \o SendTexts(Tail(q))
         ELSE SendTexts(Tail(q))

\* C24: outbound envelopes keep the order in which they were decided: the
\* turns waiting on the loop's queue are for the transcripts whose stt.final
\* sends were queued first, and they stand in the same order as those sends.
C24_FinalsAndTurnsInSameOrder ==
    LET sends == SendTexts(scheduled)
        turnsQueued == ProcessTexts(scheduled)
    IN  /\ Len(turnsQueued) <= Len(sends)
        /\ turnsQueued = SubSeq(sends, 1, Len(turnsQueued))

----------------------------------------------------------------------------
\* The turn in slot k, started on its own as for a transcript, ends in this
\* step on a failure of generation or synthesis.
BackgroundTurnFails(k) ==
    /\ turns[k].owner = None
    /\ turns[k].st = "raised"
    /\ turns'[k].st # "raised"

\* The warning and error records a step can write, by the statement that
\* writes them: the handler's except clauses, the recognition engine
\* without a recorder or on an exception, the initialisation of the synthesis
\* engine.  process_text_input (main.py:67-91) has no such statement, and the
\* exception of a coroutine started by run_coroutine_threadsafe ends in the
\* future that call returns (main.py:65), which is not kept.
LogSites ==
    {"main.py:149" : c \in {d \in Conns : pc[d] \in {"handle", "turn"} /\ pc'[d] # pc[d]}}
        \cup {"main.py:160" : c \in {d \in Conns : pc[d] # "free" /\ pc'[d] = "free"}}
        \cup {"stt_engine.py:42,60" :
                 c \in {d \in Conns : thr[d].pc = "feed" /\ thr'[d].pc # "feed"}}
        \cup {"audio_engine.py:27,33" : a \in {audio'} \ {audio}}

----------------------------------------------------------------------------
\* The recognition engine did not come up at startup: it has no recorder, or
\* got one only in the restart of feed_pcm, which registers the logging
\* lambda (the recorder, once built, is never given up).
StartupInitFailed == ~stt.recorder \/ stt.on_text_callback = "logger"

\* The feed_pcm call of c's handler runs in this step.
FeedRuns(c) == thr[c].pc = "feed" /\ thr'[c].pc # "feed"

----------------------------------------------------------------------------
\* C28: the transcript callback registered at startup stays the registered
\* one for the life of the process: whatever the recognition engine produces
\* is given to the pipeline callback.
C28_PipelineCallbackStaysRegistered == stt.on_text_callback = "pipeline"

----------------------------------------------------------------------------
\* The envelopes that answer an inbound message
ReplyTypes == {"error.raised", "ui.feedback"}

\* The handler of d finishes in this step with the text frame it holds, or
\* with the chat.query turn it is waiting for.
Answers(d) ==
    \/ pc[d] = "handle" /\ message[d].frame = "text" /\ pc'[d] # "handle"
    \/ pc[d] = "turn" /\ pc'[d] # "turn"

----------------------------------------------------------------------------
\* C27: what chat_stream gives the model always starts with the system
\* prompt and has at most 20 messages: the system prompt, then the 19 most
\* recent of all messages of the conversation (all of them while there are
\* no more than 19), in the order in which they were said.
C27_SentHistoryTrimmed ==
    [][llm'.sent # llm.sent
          => LET all == llm'.said
                 rest == SubSeq(all, 2, Len(all))
                 kept == IF Len(rest) <= 19 THEN rest
                         ELSE SubSeq(rest, Len(rest) - 18, Len(rest))
             IN  /\ llm'.sent[1].role = "system"
                 /\ all[1].role = "system"
                 /\ Len(llm'.sent) <= 20
                 /\ llm'.sent = <<all[1]>> \o kept
                 /\ \A i \in 2..Len(llm'.sent) : llm'.sent[i].role # "system"]_vars

\* A call has been made with a conversation longer than the limit: the model
\* was given 20 messages, the system prompt first, the oldest exchange gone.
C27_Witness ==
    /\ Len(llm.said) > 20
    /\ Len(llm.sent) = 20
    /\ llm.sent[1] = SystemMsg
    /\ llm.sent[2] # llm.said[2]
    /\ llm.sent[20] = UserMsg(llm.calls)

====
